---------------------------- MODULE Spec2Model ----------------------------
(***************************************************************************)
(* A model of beiwetools (josh-barback/Beiwe): configread (BeiweConfig:    *)
(* reading the three configuration file formats, identifiers, default and  *)
(* assigned names, export and reload) and manage (BeiweProject: raw data   *)
(* registries over one or several raw data directories, attached           *)
(* configurations, flags, export and reload).                              *)
(***************************************************************************)
EXTENDS Naturals, Sequences, FiniteSets, TLC

VARIABLES
    source,      \* the configuration file read by BeiweConfig: logical content and format
    config,      \* the BeiweConfig instance, or NoConfig before the file is read
    variant,     \* a BeiweConfig read from the same content serialized in another format
    exported,    \* the records folder written by BeiweConfig.export, or NoRecord
    exportedFrom,\* history: the instance that wrote the exported folder
    reloaded,    \* the BeiweConfig read back from the exported folder, or NoConfig
    last,        \* the last BeiweConfig call: its name, its input, the state before it, its outcome
    raw_data,    \* the raw data directories on disk: user folders and files
    project,     \* the BeiweProject instance, or NoProject before create
    records,     \* the folder written by BeiweProject.export, or NoRecord
    recordsFrom, \* history: the project that wrote the exported folder
    loaded,      \* the BeiweProject read back from the exported folder, or NoProject
    call,        \* the last BeiweProject call: its name and its arguments
    scan         \* the create call in progress: the users still to scan, or NoScan

cvars == <<source, config, variant, exported, exportedFrom, reloaded, last>>
pvars == <<raw_data, project, records, recordsFrom, loaded, call, scan>>
vars == <<cvars, pvars>>

(***************************************************************************)
(* Bounds of the model.                                                    *)
(***************************************************************************)
MaxSurveys == 2      \* surveys per configuration file
MaxNamed == 1        \* surveys per configuration file whose objects are renamed
MaxFiles == 2        \* user folders and files in the raw data directories
MaxRoots == 2        \* raw data directories given to one create call
MaxPersisted == 2    \* entries of a names.json that is paired with a configuration file
MaxMerged == 3       \* user folders and files in three raw data directories that are merged
MaxScanned == 3      \* user folders and files in a raw data directory that is scanned
MaxRenames == 2      \* entries of one update_names mapping

NotFound == "Not found"
NoConfig == [kind |-> "none"]
NoRecord == [kind |-> "none"]

(***************************************************************************)
(* Small helpers on sequences and functions.                               *)
(***************************************************************************)
Range(s) == {s[k] : k \in 1..Len(s)}

RECURSIVE Flatten(_)
Flatten(ss) == IF ss = <<>> THEN <<>> ELSE Head(ss) \o Flatten(Tail(ss))

\* key :> value pairs of an ordered dictionary, as Python's OrderedDict keeps them
Keys(od) == [k \in 1..Len(od) |-> od[k][1]]
Values(od) == [k \in 1..Len(od) |-> od[k][2]]
Lookup(od, key) == od[CHOOSE k \in 1..Len(od) : od[k][1] = key /\ \A j \in 1..(k-1) : od[j][1] # key][2]
HasKey(od, key) == \E k \in 1..Len(od) : od[k][1] = key

(***************************************************************************)
(* Configuration files.  The logical content of a study is a sequence of   *)
(* surveys; the backend serializes it in one of three formats.             *)
(***************************************************************************)
Formats == {"Legacy", "CurrentV1", "CurrentV2"}

V2Keys == {"call_clinician_button_enabled", "call_research_assistant_button_enabled", "use_gps_fuzzing"}

\* documented study attributes (study_settings.json), by purpose
AppKeys == <<"allow_upload_over_cellular_data", "use_gps_fuzzing">>
SurveyWideKeys == <<"call_clinician_button_enabled", "call_research_assistant_button_enabled">>
PassiveKeys == <<"accelerometer", "gps">>
DocumentedKeys == Range(AppKeys) \cup Range(SurveyWideKeys) \cup Range(PassiveKeys)
IdentifierKeys == {"_id", "id", "object_id", "deleted"}

\* the kinds of survey a study of the model may hold
SurveyKinds == {"audio_survey", "tracking_survey", "dummy"}

\* the studies on the backend, and the objects of study t: hex object identifier,
\* backend integer id, and the question of its n-th survey
Studies == {"a", "b"}
StudyOid(t) == "55d231c1-" \o t
StudyNum(t) == "id-" \o t
SurveyOid(t, n) == "5756e64e-" \o t \o ToString(n)
SurveyNum(t, n) == "id-" \o t \o ToString(n)
QuestionId(t, n) == "6c4ae7d9-" \o t \o ToString(n)

LogicalStudies ==
    { [study |-> "a", surveys |-> s, undocumented |-> u] :
        s \in UNION {[1..n -> SurveyKinds] : n \in 0..MaxSurveys}, u \in BOOLEAN }

\* one survey object as the given format serializes it
EncodeSurvey(t, kind, n, fmt) ==
    LET ident == IF fmt = "Legacy"
                 THEN ("_id" :> SurveyOid(t, n))
                 ELSE ("id" :> SurveyNum(t, n)) @@ ("object_id" :> SurveyOid(t, n))
                      @@ ("deleted" :> (IF kind = "dummy" THEN "True" ELSE "False"))
        content == IF kind = "tracking_survey"
                   THEN ("content" :> << ("question_id" :> QuestionId(t, n))
                                         @@ ("question_type" :> "radio_button") >>)
                   ELSE ("content" :> <<>>)
    IN  ident @@ ("survey_type" :> kind) @@ content

EncodeSettings(L, fmt) ==
    LET ident == IF fmt = "Legacy"
                 THEN ("_id" :> StudyOid(L.study))
                 ELSE ("id" :> StudyNum(L.study)) @@ ("object_id" :> StudyOid(L.study))
                      @@ ("deleted" :> "False")
        base == ("accelerometer" :> "True") @@ ("gps" :> "True")
                @@ ("allow_upload_over_cellular_data" :> "False")
        v2 == IF fmt = "CurrentV2"
              THEN [k \in V2Keys |-> "False"]
              ELSE <<>>
        extra == IF L.undocumented THEN ("ambient_audio" :> "True") ELSE <<>>
    IN  ident @@ base @@ v2 @@ extra

\* the deserialized configuration file (config.raw)
Encode(L, fmt) ==
    [ device_settings |-> EncodeSettings(L, fmt),
      surveys |-> [n \in 1..Len(L.surveys) |-> EncodeSurvey(L.study, L.surveys[n], n, fmt)] ]


(***************************************************************************)
(* configread: identifiers, format, settings, surveys and questions.       *)
(***************************************************************************)
\* a reader that takes the backend's integer id for the identifier when there is one
Identifier_IntegerId(obj) ==
    IF "id" \in DOMAIN obj THEN obj["id"]
    ELSE IF "_id" \in DOMAIN obj THEN obj["_id"]
    ELSE NotFound

\* the identifier of a study, survey or question object: its object_id, or its _id
\* when the file is in the MongoDB Extended JSON format
Identifier(obj) ==
    IF "object_id" \in DOMAIN obj THEN obj["object_id"]
    ELSE IF "_id" \in DOMAIN obj THEN obj["_id"]
    ELSE NotFound

\* a detector that looks for the object_id before the settings added in 2019
DetectFormat_ObjectIdFirst(raw) ==
    LET ds == raw.device_settings
    IN  IF "_id" \in DOMAIN ds /\ "object_id" \notin DOMAIN ds THEN "Legacy"
        ELSE IF "object_id" \in DOMAIN ds THEN "CurrentV1"
        ELSE IF V2Keys \subseteq DOMAIN ds THEN "CurrentV2"
        ELSE "CurrentV1"

\* the format of a deserialized configuration file
DetectFormat(raw) ==
    LET ds == raw.device_settings
    IN  IF V2Keys \subseteq DOMAIN ds THEN "CurrentV2"
        ELSE IF "_id" \in DOMAIN ds /\ "object_id" \notin DOMAIN ds THEN "Legacy"
        ELSE "CurrentV1"

\* a reader that keeps the attributes it finds in the file and no others
ReadSettings_FoundOnly(ds, keys) ==
    LET found == SelectSeq(keys, LAMBDA key : key \in DOMAIN ds)
    IN  [k \in 1..Len(found) |-> <<found[k], ds[found[k]]>>]

\* every documented attribute is looked for, whatever the format of the file
ReadSettings(ds, keys) ==
    [k \in 1..Len(keys) |-> <<keys[k], IF keys[k] \in DOMAIN ds THEN ds[keys[k]] ELSE NotFound>>]

\* attributes of the file that no documented attribute claims, in a fixed order
KeyOrder == <<"ambient_audio">>
UndocumentedKeys(ds) ==
    SelectSeq(KeyOrder, LAMBDA k : k \in DOMAIN ds /\ k \notin DocumentedKeys \cup IdentifierKeys)

SurveyClass(type) ==
    IF type = "audio_survey" THEN "AudioSurvey"
    ELSE IF type = "tracking_survey" THEN "TrackingSurvey"
    ELSE "BeiweSurvey"

KnownSurveyTypes == {"audio_survey", "tracking_survey"}

ReadQuestion(q) ==
    [identifier |-> q["question_id"], type |-> q["question_type"]]

ReadSurvey(s) ==
    [ identifier |-> Identifier(s),
      type |-> s["survey_type"],
      class |-> SurveyClass(s["survey_type"]),
      deleted |-> IF "deleted" \in DOMAIN s THEN s["deleted"] ELSE NotFound,
      questions |-> IF s["survey_type"] = "tracking_survey"
                    THEN [k \in 1..Len(s["content"]) |-> ReadQuestion(s["content"][k])]
                    ELSE <<>> ]

\* a reader that warns only once for each unknown type, however many surveys have it
SurveyWarnings_OncePerType(surveys) ==
    LET unknown == SelectSeq(surveys, LAMBDA s : s.type \notin KnownSurveyTypes)
        first == {k \in 1..Len(unknown) : \A j \in 1..(k-1) : unknown[j].type # unknown[k].type}
        kept == SelectSeq(unknown, LAMBDA s : \E k \in first : unknown[k] = s)
    IN  [k \in 1..Len(kept) |->
            [kind |-> "unknown survey type", key |-> kept[k].type, object |-> kept[k].identifier]]

\* one warning for every survey of an unknown type, in document order
SurveyWarnings(surveys) ==
    LET unknown == SelectSeq(surveys, LAMBDA s : s.type \notin KnownSurveyTypes)
    IN  [k \in 1..Len(unknown) |->
            [kind |-> "unknown survey type", key |-> unknown[k].type, object |-> unknown[k].identifier]]

\* a reader that stores undocumented settings without a warning
SettingWarnings_Unlogged(ds) == <<>>

\* one warning for every undocumented setting of the file
SettingWarnings(ds) ==
    LET keys == UndocumentedKeys(ds)
    IN  [k \in 1..Len(keys) |-> [kind |-> "unknown setting", key |-> keys[k], object |-> Identifier(ds)]]

(***************************************************************************)
(* configread: names.                                                      *)
(***************************************************************************)
SurveyName(n) == "Survey " \o ToString(n)
QuestionName(n, m) == SurveyName(n) \o " - Question " \o ToString(m)

\* the number of questions in the surveys before the n-th
RECURSIVE QuestionsBefore(_, _)
QuestionsBefore(surveys, n) ==
    IF n <= 1 THEN 0
    ELSE QuestionsBefore(surveys, n - 1) + Len(surveys[n - 1].questions)

\* default names with one question counter for the whole file
DefaultSurveyNames_OneCounter(surveys, n) ==
    << <<surveys[n].identifier, SurveyName(n)>> >>
    \o [m \in 1..Len(surveys[n].questions) |->
          <<surveys[n].questions[m].identifier, QuestionName(n, QuestionsBefore(surveys, n) + m)>>]

\* default names, in the order the objects appear in the file
DefaultSurveyNames(surveys, n) ==
    << <<surveys[n].identifier, SurveyName(n)>> >>
    \o [m \in 1..Len(surveys[n].questions) |-> <<surveys[n].questions[m].identifier, QuestionName(n, m)>>]

DefaultNames(identifier, name, surveys) ==
    << <<identifier, name>> >> \o Flatten([n \in 1..Len(surveys) |-> DefaultSurveyNames(surveys, n)])

\* a load that takes names.json as the name assignments, as it is
LoadNames_AsWritten(defaults, persisted) ==
    IF persisted = <<>> THEN defaults ELSE persisted

\* names read from an exported names.json replace the defaults of the identifiers
\* they name; identifiers of names.json that the study does not hold are ignored
LoadNames(defaults, persisted) ==
    [k \in 1..Len(defaults) |->
        IF HasKey(persisted, defaults[k][1])
        THEN <<defaults[k][1], Lookup(persisted, defaults[k][1])>>
        ELSE defaults[k]]

\* the names a mapping old name -> new name would give
Renamed(names, m) ==
    [k \in 1..Len(names) |->
        IF names[k][2] \in DOMAIN m THEN <<names[k][1], m[names[k][2]]>> ELSE names[k]]

\* the first name that two identifiers would share, NotFound when names are unique
Collision(names) ==
    LET dup == {k \in 1..Len(names) : \E j \in 1..(k-1) : names[j][2] = names[k][2]}
    IN  IF dup = {} THEN NotFound
        ELSE names[CHOOSE k \in dup : \A j \in dup : k <= j][2]

\* config.identifier_lookup: name -> identifier, filled in the order of the name
\* assignments, an identifier named later taking the place of one with the same name
IdentifierLookup(names) ==
    [name \in Range(Values(names)) |->
        names[CHOOSE k \in 1..Len(names) :
                 /\ names[k][2] = name
                 /\ \A j \in 1..Len(names) : names[j][2] = name => j <= k][1]]

IsMalformed(raw) ==
    "device_settings" \notin DOMAIN raw \/ "surveys" \notin DOMAIN raw

\* BeiweConfig(path): the instance read from a deserialized file, the name of the
\* study (from the file or folder name) and the names of names.json (empty when
\* the path is a configuration file)
BeiweConfig(raw, name, persisted) ==
    IF IsMalformed(raw)
    THEN [kind |-> "error", error |-> "MalformedDocument"]
    ELSE LET ds == raw.device_settings
             surveys == [n \in 1..Len(raw.surveys) |-> ReadSurvey(raw.surveys[n])]
             defaults == DefaultNames(Identifier(ds), name, surveys)
         IN  [ kind |-> "config",
               identifier |-> Identifier(ds),
               name |-> name,
               format |-> DetectFormat(raw),
               settings |-> [ app |-> ReadSettings(ds, AppKeys),
                              survey |-> ReadSettings(ds, SurveyWideKeys),
                              passive |-> ReadSettings(ds, PassiveKeys),
                              other |-> ReadSettings(ds, UndocumentedKeys(ds)) ],
               surveys |-> surveys,
               warnings |-> SettingWarnings(ds) \o SurveyWarnings(surveys),
               name_assignments |-> LoadNames(defaults, persisted),
               identifier_lookup |-> IdentifierLookup(LoadNames(defaults, persisted)),
               default_names |-> (LoadNames(defaults, persisted) = defaults),
               raw |-> raw ]

\* an update that renames entry by entry and stops at the first name already taken
RECURSIVE RenamedUntilCollision(_, _, _)
RenamedUntilCollision(names, m, k) ==
    IF k > Len(names) THEN names
    ELSE LET new == IF names[k][2] \in DOMAIN m THEN m[names[k][2]] ELSE names[k][2]
             taken == \E j \in 1..Len(names) : j # k /\ names[j][2] = new
         IN  IF taken THEN names
             ELSE RenamedUntilCollision([names EXCEPT ![k] = <<names[k][1], new>>], m, k + 1)

UpdateNames_EntryByEntry(c, m) ==
    LET new == Renamed(c.name_assignments, m)
    IN  IF Collision(new) # NotFound
        THEN [config |-> [c EXCEPT !.name_assignments = RenamedUntilCollision(c.name_assignments, m, 1)],
              error |-> "NameCollision", name |-> Collision(new)]
        ELSE [config |-> [c EXCEPT !.name_assignments = new, !.default_names = FALSE],
              error |-> "none", name |-> NotFound]

\* update_names(new_assignments): all of the mapping is applied, or none of it
UpdateNames(c, m) ==
    LET new == Renamed(c.name_assignments, m)
    IN  IF Collision(new) # NotFound
        THEN [config |-> c, error |-> "NameCollision", name |-> Collision(new)]
        ELSE [config |-> [c EXCEPT !.name_assignments = new, !.default_names = FALSE,
                                   !.identifier_lookup = IdentifierLookup(new)],
              error |-> "none", name |-> NotFound]

\* an export that writes the default names to names.json
ExportRecords_DefaultNames(c) ==
    [kind |-> "record", raw |-> c.raw,
     names |-> DefaultNames(c.identifier, c.name, c.surveys), paths |-> <<c.name>>]

\* export(directory): the records folder (raw.json, names.json, paths.json)
ExportRecords(c) ==
    [kind |-> "record", raw |-> c.raw, names |-> c.name_assignments, paths |-> <<c.name>>]

\* BeiweConfig(documentation_path): the instance read from an exported folder
LoadRecords(r) == BeiweConfig(r.raw, r.paths[1], r.names)

(***************************************************************************)
(* Comparison of configread objects is flexible: an attribute that one     *)
(* format does not hold ("Not found") matches any value of the other.      *)
(***************************************************************************)
\* a comparison that takes a value of one study for different from a value the other
\* does not have
FlexEq_Strict(a, b) == a = b

FlexEq(a, b) == a = b \/ a = NotFound \/ b = NotFound

SettingsEq(a, b) ==
    /\ Keys(a) = Keys(b)
    /\ \A k \in 1..Len(a) : FlexEq(a[k][2], b[k][2])

SurveyEq(a, b) ==
    /\ a.identifier = b.identifier
    /\ a.type = b.type
    /\ FlexEq(a.deleted, b.deleted)
    /\ a.questions = b.questions

ConfigEq(a, b) ==
    /\ a.kind = "config" /\ b.kind = "config"
    /\ a.identifier = b.identifier
    /\ SettingsEq(a.settings.app, b.settings.app)
    /\ SettingsEq(a.settings.survey, b.settings.survey)
    /\ SettingsEq(a.settings.passive, b.settings.passive)
    /\ a.settings.other = b.settings.other
    /\ Len(a.surveys) = Len(b.surveys)
    /\ \A n \in 1..Len(a.surveys) : SurveyEq(a.surveys[n], b.surveys[n])

(***************************************************************************)
(* manage: raw data directories.  A raw data directory holds one folder    *)
(* for each user, with one folder for each data stream; a file holds one   *)
(* hour of observations.                                                   *)
(***************************************************************************)
Roots == {"raw_1", "raw_2"}
UserOrder == <<"kiu5hvmv", "sxvpopdz">>     \* user ids, in sorted order
Users == Range(UserOrder)

PassiveStreams == {"accelerometer", "gps"}
SurveyStreams == {"audio_recordings", "survey_answers", "survey_timings"}
KnownStreams == PassiveStreams \cup SurveyStreams \cup {"identifiers"}
KnownOS == {"iOS", "Android"}

NoFile == [stream |-> "", object |-> "", bucket |-> 0, size |-> 0, os |-> ""]

\* the files a user folder of the model may hold: stream folder, survey identifier
\* (survey streams), hour of the file name, size in bytes, phone OS (identifiers)
PassiveFiles ==
    { [stream |-> "accelerometer", object |-> "", bucket |-> 1, size |-> 100, os |-> ""],
      [stream |-> "accelerometer", object |-> "", bucket |-> 1, size |-> 150, os |-> ""],
      [stream |-> "accelerometer", object |-> "", bucket |-> 2, size |-> 100, os |-> ""],
      [stream |-> "identifiers", object |-> "", bucket |-> 1, size |-> 100, os |-> "iOS"] }

SurveyFiles ==
    { [stream |-> "survey_timings", object |-> SurveyOid(t, 1), bucket |-> 1, size |-> 100, os |-> ""] :
        t \in Studies }

\* an entry of a raw data directory: a user folder, or a file in a user folder
Entries(roots, files) ==
    { [root |-> r, user |-> u, file |-> f] : r \in roots, u \in Users, f \in files \cup {NoFile} }

RECURSIVE SubsetsUpTo(_, _)
SubsetsUpTo(S, n) ==
    IF n = 0 THEN {{}}
    ELSE LET smaller == SubsetsUpTo(S, n - 1)
         IN  smaller \cup {p \cup {e} : p \in smaller, e \in S}

\* one folder holds one file of a given name
WellFormed(fs) ==
    \A e, g \in fs :
        (e.root = g.root /\ e.user = g.user /\ e.file.stream = g.file.stream
         /\ e.file.object = g.file.object /\ e.file.bucket = g.file.bucket) => e = g

FileSystems(roots, files, n) == {fs \in SubsetsUpTo(Entries(roots, files), n) : WellFormed(fs)}

UsersIn(fs, root) == {e.user : e \in {g \in fs : g.root = root}}
FilesIn(fs, root, user) == {e.file : e \in {g \in fs : g.root = root /\ g.user = user /\ g.file # NoFile}}

(***************************************************************************)
(* manage: the registry of one user's raw data.                            *)
(***************************************************************************)
\* the observations two registries of one user disagree on: same stream, same
\* hour, different size
Conflicts(files) ==
    { [stream |-> f.stream, object |-> f.object, bucket |-> f.bucket] :
        f \in {f \in files : \E g \in files :
                  /\ g.stream = f.stream /\ g.object = f.object /\ g.bucket = f.bucket
                  /\ g.size # f.size} }

\* a scan that registers the files of every folder, known or not
ScanUser_EveryFolder(fs, root, user) ==
    LET files == FilesIn(fs, root, user)
    IN  [ id |-> user,
          files |-> {f \in files : f.bucket > 0},
          irregular_directories |-> {f.stream : f \in {f \in files : f.stream \notin KnownStreams}},
          unregistered_files |-> {f \in files : f.bucket = 0},
          conflicts |-> {} ]

\* a scan that registers every file of a data stream folder, whatever its name
ScanUser_EveryName(fs, root, user) ==
    LET files == FilesIn(fs, root, user)
        known == {f \in files : f.stream \in KnownStreams}
    IN  [ id |-> user,
          files |-> known,
          irregular_directories |-> {f.stream : f \in files \ known},
          unregistered_files |-> {f \in known : f.bucket = 0},
          conflicts |-> {} ]

\* the registry of the user folder of one raw data directory
ScanUser(fs, root, user) ==
    LET files == FilesIn(fs, root, user)
        known == {f \in files : f.stream \in KnownStreams}
    IN  [ id |-> user,
          files |-> {f \in known : f.bucket > 0},
          irregular_directories |-> {f.stream : f \in files \ known},
          unregistered_files |-> {f \in known : f.bucket = 0},
          conflicts |-> {} ]

\* a merge in which the registry read last replaces the files of the same hour
MergeUser_LastWins(a, b) ==
    LET kept == {f \in a.files : ~\E g \in b.files :
                    g.stream = f.stream /\ g.object = f.object /\ g.bucket = f.bucket}
    IN  [ id |-> a.id,
          files |-> kept \cup b.files,
          irregular_directories |-> a.irregular_directories \cup b.irregular_directories,
          unregistered_files |-> a.unregistered_files \cup b.unregistered_files,
          conflicts |-> a.conflicts \cup b.conflicts ]

\* a merge that keeps no file of an hour on which the two registries disagree
MergeUser_DropsDisputed(a, b) ==
    LET disputed == Conflicts(a.files \cup b.files)
        hour(f) == [stream |-> f.stream, object |-> f.object, bucket |-> f.bucket]
    IN  [ id |-> a.id,
          files |-> {f \in a.files \cup b.files : hour(f) \notin disputed},
          irregular_directories |-> a.irregular_directories \cup b.irregular_directories,
          unregistered_files |-> a.unregistered_files \cup b.unregistered_files,
          conflicts |-> a.conflicts \cup b.conflicts \cup disputed ]

\* the bytes of a set of files
RECURSIVE TotalSize(_)
TotalSize(files) ==
    IF files = {} THEN 0
    ELSE LET f == CHOOSE f \in files : TRUE
         IN  f.size + TotalSize(files \ {f})

\* the statistics a registry reports for one data stream: how many files, how many
\* bytes, and the first and the last hour with a file (0 when there is none)
Overview(reg, stream) ==
    LET of == {f \in reg.files : f.stream = stream}
        hours == {f.bucket : f \in of}
    IN  [ files |-> Cardinality(of),
          bytes |-> TotalSize(of),
          first |-> IF of = {} THEN 0 ELSE CHOOSE h \in hours : \A k \in hours : h <= k,
          last |-> IF of = {} THEN 0 ELSE CHOOSE h \in hours : \A k \in hours : h >= k ]

\* a merge that reports a conflict for every hour found in both registries
MergeUser_FlagsShared(a, b) ==
    LET hour(f) == [stream |-> f.stream, object |-> f.object, bucket |-> f.bucket]
    IN  [ id |-> a.id,
          files |-> a.files \cup b.files,
          irregular_directories |-> a.irregular_directories \cup b.irregular_directories,
          unregistered_files |-> a.unregistered_files \cup b.unregistered_files,
          conflicts |-> a.conflicts \cup b.conflicts
                          \cup {hour(f) : f \in {f \in a.files : \E g \in b.files : hour(g) = hour(f)}} ]

\* the registry of one user found in two raw data directories: the files of both,
\* an observation found in both kept once, and both sizes kept where they differ
MergeUser(a, b) ==
    [ id |-> a.id,
      files |-> a.files \cup b.files,
      irregular_directories |-> a.irregular_directories \cup b.irregular_directories,
      unregistered_files |-> a.unregistered_files \cup b.unregistered_files,
      conflicts |-> a.conflicts \cup b.conflicts \cup Conflicts(a.files \cup b.files) ]

RECURSIVE MergeAll(_)
MergeAll(regs) ==
    IF Len(regs) = 1 THEN regs[1]
    ELSE MergeUser(MergeAll(SubSeq(regs, 1, Len(regs) - 1)), regs[Len(regs)])

\* the registry of a user over the raw data directories, in the order given
UserData(fs, raw_dirs, user) ==
    LET with == SelectSeq(raw_dirs, LAMBDA r : user \in UsersIn(fs, r))
    IN  MergeAll([k \in 1..Len(with) |-> ScanUser(fs, with[k], user)])

DeviceOS(reg) == {f.os : f \in {f \in reg.files : f.stream = "identifiers"}}

(***************************************************************************)
(* manage: configurations attached to a project.                           *)
(***************************************************************************)
\* the configuration files and exported configurations on disk: for each study
\* the file from the backend, and the export with names that tell the studies apart
ConfigPaths == {"a.json", "b.json", "a_named", "b_named"}
PathStudy(path) == IF path \in {"a.json", "a_named"} THEN "a" ELSE "b"
StudyContent(t) ==
    [study |-> t, surveys |-> <<"tracking_survey">>, undocumented |-> FALSE]
StudyFormat(t) == IF t = "a" THEN "Legacy" ELSE "CurrentV2"
StudyFileName(t) == "Study " \o t

BackendConfig(t) == BeiweConfig(Encode(StudyContent(t), StudyFormat(t)), StudyFileName(t), <<>>)

\* the names the researcher gives the objects of study t, to tell the studies of a
\* project apart: <t>_S<n> for Survey <n>
ShortSurveyName(t, n) == t \o "_S" \o ToString(n)
ShortQuestionName(t, n, m) == ShortSurveyName(t, n) \o " - Question " \o ToString(m)

ShortNames(t) ==
    LET c == BackendConfig(t)
        pairs == { <<SurveyName(n), ShortSurveyName(t, n)>> : n \in 1..Len(c.surveys) }
                 \cup UNION { { <<QuestionName(n, m), ShortQuestionName(t, n, m)>> :
                                  m \in 1..Len(c.surveys[n].questions) } : n \in 1..Len(c.surveys) }
    IN  [old \in {pr[1] : pr \in pairs} |-> (CHOOSE pr \in pairs : pr[1] = old)[2]]

\* BeiweConfig(path) for the paths on disk
ReadPath(path) ==
    IF path \in {"a.json", "b.json"}
    THEN BackendConfig(PathStudy(path))
    ELSE LoadRecords(ExportRecords(UpdateNames(BackendConfig(PathStudy(path)),
                                               ShortNames(PathStudy(path))).config))

PathOrder == <<"a.json", "a_named", "b.json", "b_named">>     \* paths, in sorted order

NoConfiguration == [kind |-> "none"]
OnePath(path) == [kind |-> "path", path |-> path]
ByUser(paths) == [kind |-> "users", paths |-> paths]

\* the configuration arguments of the model: none, one path, or a path for each user
Configurations ==
    {NoConfiguration} \cup {OnePath(path) : path \in ConfigPaths}
    \cup {ByUser(paths) : paths \in [Users -> ConfigPaths]}

\* the path attached to each user of the project
Assignment(ids, configuration) ==
    IF configuration.kind = "path" THEN [u \in ids |-> configuration.path]
    ELSE IF configuration.kind = "users"
    THEN [u \in ids \cap DOMAIN configuration.paths |-> configuration.paths[u]]
    ELSE [u \in {} |-> ""]

\* the distinct paths of a configuration argument; each is read once
PathsOf(configuration) ==
    IF configuration.kind = "path" THEN {configuration.path}
    ELSE IF configuration.kind = "users"
    THEN {configuration.paths[u] : u \in DOMAIN configuration.paths}
    ELSE {}

\* a project that reads the path of each user of the mapping, one user after the other
PathsRead_PerUser(configuration) ==
    IF configuration.kind = "users"
    THEN LET users == SelectSeq(UserOrder, LAMBDA u : u \in DOMAIN configuration.paths)
         IN  [k \in 1..Len(users) |-> configuration.paths[users[k]]]
    ELSE SelectSeq(PathOrder, LAMBDA path : path \in PathsOf(configuration))

\* the paths a call reads and normalizes, in the order read: each distinct path of
\* the configuration argument once, whatever the number of users it is attached to
PathsRead(configuration) ==
    SelectSeq(PathOrder, LAMBDA path : path \in PathsOf(configuration))

\* the names of the surveys and questions of the attached configurations, pooled
ObjectNames(configurations) ==
    LET paths == SelectSeq(PathOrder, LAMBDA path : path \in DOMAIN configurations)
    IN  Flatten([k \in 1..Len(paths) |-> Tail(configurations[paths[k]].name_assignments)])

\* identifier -> name, when the pooled names are unique; otherwise no object names
\* are assigned ("Object names are not unique; no object names are assigned.")
AssignObjectNames(configurations) ==
    LET pool == ObjectNames(configurations)
    IN  IF Collision(pool) # NotFound
        THEN [i \in {} |-> ""]
        ELSE [i \in Range(Keys(pool)) |-> Lookup(pool, i)]

\* the label of a survey or question in summaries: its name when it has one
Label(p, identifier) ==
    IF identifier \in DOMAIN p.object_names THEN p.object_names[identifier] ELSE identifier

FlagNames ==
    {"ignored_users", "no_registry", "without_data", "no_identifiers",
     "irregular_directories", "multiple_devices", "unknown_os", "unnamed_objects"}

(***************************************************************************)
(* manage: BeiweProject.                                                   *)
(***************************************************************************)
NoProject == [kind |-> "none"]
AllUsers == [all |-> TRUE, ids |-> {}]
TheseUsers(ids) == [all |-> FALSE, ids |-> ids]

\* a project that attaches the new configurations beside those already attached
UpdateConfigurations_KeepOld(p, configuration) ==
    LET new == [path \in PathsOf(configuration) |-> ReadPath(path)]
        all == [path \in DOMAIN new \cup DOMAIN p.configurations |->
                   IF path \in DOMAIN new THEN new[path] ELSE p.configurations[path]]
    IN  [p EXCEPT !.configurations = new,
                  !.assignment = Assignment(Range(p.ids), configuration),
                  !.study_names = {new[path].name : path \in DOMAIN new},
                  !.object_names = AssignObjectNames(all)]

\* an attachment that files the data of a survey under the name of the survey
UpdateConfigurations_RenamesKeys(p, configuration) ==
    LET new == [path \in PathsOf(configuration) |-> ReadPath(path)]
        names == AssignObjectNames(new)
        named(f) == IF f.object \in DOMAIN names THEN [f EXCEPT !.object = names[f.object]] ELSE f
    IN  [p EXCEPT !.configurations = new,
                  !.assignment = Assignment(Range(p.ids), configuration),
                  !.study_names = {new[path].name : path \in DOMAIN new},
                  !.object_names = names,
                  !.data = [u \in DOMAIN p.data |->
                               [p.data[u] EXCEPT !.files = {named(f) : f \in p.data[u].files}]]]

\* update_configurations(configuration): every distinct path is read once, the
\* configurations replace those attached before, and names are read from them
UpdateConfigurations(p, configuration) ==
    LET new == [path \in Range(PathsRead(configuration)) |-> ReadPath(path)]
    IN  [p EXCEPT !.configurations = new,
                  !.assignment = Assignment(Range(p.ids), configuration),
                  !.study_names = {new[path].name : path \in DOMAIN new},
                  !.object_names = AssignObjectNames(new)]

\* the users with a folder in one of the raw data directories
Found(fs, raw_dirs) == UNION {UsersIn(fs, raw_dirs[k]) : k \in 1..Len(raw_dirs)}

\* a project that lists the users of every raw data directory, one directory after
\* the other
ProjectIds_PerDirectory(fs, raw_dirs, selected) ==
    Flatten([k \in 1..Len(raw_dirs) |->
                SelectSeq(UserOrder, LAMBDA u : u \in UsersIn(fs, raw_dirs[k]) \cap selected)])

\* the users with a registry, once each, in sorted order
ProjectIds(fs, raw_dirs, selected) ==
    SelectSeq(UserOrder, LAMBDA u : u \in Found(fs, raw_dirs) \cap selected)

\* a project that flags no user for the phones in the identifiers files
Flags_PhonesUnflagged(found, selected, data) ==
    [ ignored_users |-> found \ selected,
      no_registry |-> selected \ found,
      without_data |-> {u \in DOMAIN data : data[u].files = {}},
      no_identifiers |-> {u \in DOMAIN data : DeviceOS(data[u]) = {}},
      irregular_directories |-> {u \in DOMAIN data : data[u].irregular_directories # {}},
      multiple_devices |-> {},
      unknown_os |-> {},
      unnamed_objects |-> {} ]

Flags(found, selected, data) ==
    [ ignored_users |-> found \ selected,
      no_registry |-> selected \ found,
      without_data |-> {u \in DOMAIN data : data[u].files = {}},
      no_identifiers |-> {u \in DOMAIN data : DeviceOS(data[u]) = {}},
      irregular_directories |-> {u \in DOMAIN data : data[u].irregular_directories # {}},
      multiple_devices |-> {u \in DOMAIN data : Cardinality(DeviceOS(data[u])) > 1},
      unknown_os |-> {u \in DOMAIN data : DeviceOS(data[u]) \ KnownOS # {}},
      unnamed_objects |-> {} ]

\* BeiweProject.create(raw_dirs, user_ids, configuration)
CreateProject(fs, raw_dirs, user_ids, configuration) ==
    LET found == Found(fs, raw_dirs)
        selected == IF user_ids.all THEN found ELSE user_ids.ids
        ids == ProjectIds(fs, raw_dirs, selected)
        data == [u \in Range(ids) |-> UserData(fs, raw_dirs, u)]
        base == [ kind |-> "project",
                  ids |-> ids,
                  data |-> data,
                  raw_dirs |-> raw_dirs,
                  user_names |-> [k \in 1..Len(ids) |-> <<ids[k], "Participant " \o ToString(k)>>],
                  configurations |-> [path \in {} |-> NoConfig],
                  assignment |-> [u \in {} |-> ""],
                  study_names |-> {},
                  object_names |-> [i \in {} |-> ""],
                  flags |-> Flags(found, selected, data) ]
    IN  UpdateConfigurations(base, configuration)

\* an export that writes the configuration files without their name assignments
ExportProject_DefaultNames(p) ==
    [ kind |-> "record",
      ids |-> p.ids,
      users |-> p.data,
      raw_dirs |-> p.raw_dirs,
      user_names |-> p.user_names,
      assignment |-> p.assignment,
      flags |-> p.flags,
      configurations |-> [path \in DOMAIN p.configurations |->
                             ExportRecords_DefaultNames(p.configurations[path])] ]

\* export(name, directory): the records folder of the project
ExportProject(p) ==
    [ kind |-> "record",
      ids |-> p.ids,
      users |-> p.data,
      raw_dirs |-> p.raw_dirs,
      user_names |-> p.user_names,
      assignment |-> p.assignment,
      flags |-> p.flags,
      configurations |-> [path \in DOMAIN p.configurations |-> ExportRecords(p.configurations[path])] ]

\* BeiweProject.load(path)
LoadProject(r) ==
    LET configurations == [path \in DOMAIN r.configurations |-> LoadRecords(r.configurations[path])]
    IN  [ kind |-> "project",
          ids |-> r.ids,
          data |-> r.users,
          raw_dirs |-> r.raw_dirs,
          user_names |-> r.user_names,
          configurations |-> configurations,
          assignment |-> r.assignment,
          study_names |-> {configurations[path].name : path \in DOMAIN configurations},
          object_names |-> AssignObjectNames(configurations),
          flags |-> r.flags ]

\* p == q: the registries of every user and the attached configurations are equal
ProjectEq(p, q) ==
    /\ p.kind = "project" /\ q.kind = "project"
    /\ p.ids = q.ids
    /\ p.data = q.data
    /\ p.flags = q.flags
    /\ p.user_names = q.user_names
    /\ p.assignment = q.assignment
    /\ p.object_names = q.object_names
    /\ DOMAIN p.configurations = DOMAIN q.configurations
    /\ \A path \in DOMAIN p.configurations :
          /\ ConfigEq(p.configurations[path], q.configurations[path])
          /\ p.configurations[path].name_assignments = q.configurations[path].name_assignments

(***************************************************************************)
(* The configread calls of the example notebook, as actions.               *)
(***************************************************************************)
FileName == "Generic Study"
NewNames == {"Mood", "Sleep"}

\* a file that is not a configuration file at all
MalformedRaw == [surveys |-> <<>>]

Sources ==
    { [logical |-> L, format |-> f, raw |-> Encode(L, f)] : L \in LogicalStudies, f \in Formats }
    \cup { [logical |-> [study |-> "a", surveys |-> <<>>, undocumented |-> FALSE], format |-> "none", raw |-> MalformedRaw] }

\* the files whose objects the naming calls rename: files of the oldest and of the
\* newest format, without undocumented settings
NamedSources ==
    { s \in Sources : /\ s.format \in {"Legacy", "CurrentV2"}
                      /\ Len(s.logical.surveys) <= MaxNamed
                      /\ ~s.logical.undocumented }

\* the mappings old name -> new name a caller may pass to update_names
Mappings(c) ==
    LET old == Range(Values(c.name_assignments))
    IN  UNION { [D -> NewNames] : D \in {D \in SUBSET old : Cardinality(D) \in 1..MaxRenames} }

\* no project: the raw data directories are empty and no call was made
NoProjectState ==
    /\ raw_data = {}
    /\ project = NoProject
    /\ records = NoRecord
    /\ recordsFrom = NoProject
    /\ loaded = NoProject
    /\ call = [op |-> "none"]
    /\ scan = [kind |-> "none"]

InitAny ==
    /\ config = NoConfig
    /\ variant = NoConfig
    /\ exported = NoRecord
    /\ exportedFrom = NoConfig
    /\ reloaded = NoConfig
    /\ last = [op |-> "none"]

InitFormats == source \in Sources /\ InitAny /\ NoProjectState

InitConfig == source \in NamedSources /\ InitAny /\ NoProjectState

\* config = BeiweConfig(configuration_path)
ReadConfig ==
    /\ config = NoConfig
    /\ config' = BeiweConfig(source.raw, FileName, <<>>)
    /\ last' = [op |-> "read"]
    /\ UNCHANGED <<source, variant, exported, exportedFrom, reloaded>>
    /\ UNCHANGED pvars

\* the same study, read from a file that the backend wrote in another format
ReadVariant ==
    /\ config.kind = "config"
    /\ \E f \in Formats \ {source.format} :
          variant' = BeiweConfig(Encode(source.logical, f), FileName, <<>>)
    /\ last' = [op |-> "read"]
    /\ UNCHANGED <<source, config, exported, exportedFrom, reloaded>>
    /\ UNCHANGED pvars

\* config.update_names(new_assignments); the caller renames the objects of a study
\* before it exports the study, as the notebook does
UpdateNamesCall ==
    /\ config.kind = "config"
    /\ exported = NoRecord
    /\ \E m \in Mappings(config) :
          LET r == UpdateNames(config, m)
          IN  /\ config' = r.config
              /\ last' = [op |-> "update_names", mapping |-> m, before |-> config.name_assignments,
                          error |-> r.error, name |-> r.name]
    /\ UNCHANGED <<source, variant, exported, exportedFrom, reloaded>>
    /\ UNCHANGED pvars

\* documentation_path = config.export(test_directory)
ExportCall ==
    /\ config.kind = "config"
    /\ exported' = ExportRecords(config)
    /\ exportedFrom' = config
    /\ last' = [op |-> "export"]
    /\ UNCHANGED <<source, config, variant, reloaded>>
    /\ UNCHANGED pvars

\* config_from_export = BeiweConfig(documentation_path)
LoadCall ==
    /\ exported.kind = "record"
    /\ reloaded' = LoadRecords(exported)
    /\ last' = [op |-> "load", origin |-> exportedFrom]
    /\ UNCHANGED <<source, config, variant, exported, exportedFrom>>
    /\ UNCHANGED pvars

NextFormats ==
    \/ ReadConfig
    \/ ReadVariant

NextConfig ==
    \/ ReadConfig
    \/ UpdateNamesCall
    \/ ExportCall
    \/ LoadCall

SpecFormats == InitFormats /\ [][NextFormats]_vars

SpecConfig == InitConfig /\ [][NextConfig]_vars

\* the files whose names are read from a names.json: files of the oldest format
\* with audio and tracking surveys
LoadedSources ==
    { s \in Sources : /\ s.format = "Legacy"
                      /\ ~s.logical.undocumented
                      /\ \A n \in 1..Len(s.logical.surveys) : s.logical.surveys[n] # "dummy" }

\* the surveys that an exported names.json may name: those of the study on disk and
\* one more, which no file on disk holds
PersistedIds == [n \in 1..(MaxSurveys + 1) |-> SurveyOid("a", n)]
PersistedNames == {SurveyName(1), SurveyName(2), "Mood"}

\* the names.json files on disk: each was exported by some BeiweConfig, so it gives
\* each identifier one name and no name to two identifiers
NamesFiles ==
    LET picks == {D \in SubsetsUpTo(1..Len(PersistedIds), MaxPersisted) : D # {}}
        order(D) == SelectSeq([n \in 1..Len(PersistedIds) |-> n], LAMBDA n : n \in D)
        named(D) == {f \in [D -> PersistedNames] : \A i, j \in D : f[i] = f[j] => i = j}
    IN  UNION { { [k \in 1..Len(order(D)) |-> <<PersistedIds[order(D)[k]], f[order(D)[k]]>>] :
                    f \in named(D) } : D \in picks }

RenameTo == {"Mood", SurveyName(2)}

InitNames == source \in LoadedSources /\ InitAny /\ NoProjectState

\* config = BeiweConfig(raw.json, names.json): a configuration file paired with a
\* names.json that some study exported
LoadNamesCall ==
    /\ \E persisted \in NamesFiles :
          /\ config' = BeiweConfig(source.raw, FileName, persisted)
          /\ last' = [op |-> "load_names", persisted |-> persisted]
    /\ UNCHANGED <<source, variant, exported, exportedFrom, reloaded>>
    /\ UNCHANGED pvars

\* config.update_names({old: new})
UpdateOneNameCall ==
    /\ config.kind = "config"
    /\ \E old \in Range(Values(config.name_assignments)), new \in RenameTo :
          LET m == [o \in {old} |-> new]
              r == UpdateNames(config, m)
          IN  /\ config' = r.config
              /\ last' = [op |-> "update_names", mapping |-> m, before |-> config.name_assignments,
                          error |-> r.error, name |-> r.name]
    /\ UNCHANGED <<source, variant, exported, exportedFrom, reloaded>>
    /\ UNCHANGED pvars

NextNames ==
    \/ ReadConfig
    \/ UpdateOneNameCall
    \/ LoadNamesCall

SpecNames == InitNames /\ [][NextNames]_vars

(***************************************************************************)
(* The manage calls of the example notebook, as actions.                   *)
(***************************************************************************)
\* the lists of raw data directories a caller may pass to create
RootLists == UNION {[1..n -> Roots] : n \in 1..MaxRoots}

Selections == {AllUsers, TheseUsers({UserOrder[1]})}

AttachedFiles == SurveyFiles \cup {f \in PassiveFiles : f.stream = "identifiers"}

\* no configuration file is read
IdleConfig ==
    /\ source = CHOOSE src \in Sources : src.format = "Legacy" /\ src.logical.surveys = <<>>
                                          /\ ~src.logical.undocumented
    /\ InitAny

NewProject ==
    /\ project = NoProject
    /\ records = NoRecord
    /\ recordsFrom = NoProject
    /\ loaded = NoProject
    /\ call = [op |-> "none"]
    /\ scan = [kind |-> "none"]

\* one raw data directory with survey data, and configurations to attach
Init ==
    /\ raw_data \in FileSystems({"raw_1"}, AttachedFiles, MaxFiles)
    /\ NewProject
    /\ IdleConfig

\* several raw data directories with passive data, to merge
InitMerge ==
    /\ raw_data \in FileSystems(Roots, PassiveFiles, MaxFiles)
    /\ NewProject
    /\ IdleConfig

\* the state after create(raw_dirs, user_ids, configuration)
Created(raw_dirs, user_ids, configuration) ==
    /\ project' = CreateProject(raw_data, raw_dirs, user_ids, configuration)
    /\ call' = [op |-> "create", raw_dirs |-> raw_dirs, user_ids |-> user_ids,
                configuration |-> configuration]
    /\ UNCHANGED <<raw_data, records, recordsFrom, loaded, scan>>
    /\ UNCHANGED cvars

\* p = BeiweProject.create(raw_dir, user_ids, configuration)
CreateCall ==
    /\ project = NoProject
    /\ \E user_ids \in Selections, configuration \in Configurations :
          Created(<<"raw_1">>, user_ids, configuration)

\* r = BeiweProject.create(raw_dirs, user_ids)
CreateMerged ==
    /\ project = NoProject
    /\ \E raw_dirs \in RootLists, user_ids \in Selections :
          Created(raw_dirs, user_ids, NoConfiguration)

\* p.update_configurations(configuration)
\* (the notebook attaches configurations before it exports the project)
UpdateConfigurationsCall ==
    /\ project.kind = "project"
    /\ records = NoRecord
    /\ \E configuration \in Configurations :
          /\ project' = UpdateConfigurations(project, configuration)
          /\ call' = [op |-> "update_configurations", configuration |-> configuration,
                      reads |-> PathsRead(configuration),
                      fallback |-> Collision(ObjectNames(project.configurations)) # NotFound]
    /\ UNCHANGED <<raw_data, records, recordsFrom, loaded, scan>>
    /\ UNCHANGED cvars

\* path = p.export(name, directory, track_time = False)
ExportProjectCall ==
    /\ project.kind = "project"
    /\ records' = ExportProject(project)
    /\ recordsFrom' = project
    /\ call' = [op |-> "export", again |-> call.op = "export"]
    /\ UNCHANGED <<raw_data, project, loaded, scan>>
    /\ UNCHANGED cvars

\* q = BeiweProject.load(path)
LoadProjectCall ==
    /\ records.kind = "record"
    /\ loaded' = LoadProject(records)
    /\ call' = [op |-> "load", origin |-> recordsFrom]
    /\ UNCHANGED <<raw_data, project, records, recordsFrom, scan>>
    /\ UNCHANGED cvars

Next ==
    \/ CreateCall
    \/ UpdateConfigurationsCall
    \/ ExportProjectCall
    \/ LoadProjectCall

NextMerge ==
    \/ CreateMerged
    \/ ExportProjectCall
    \/ LoadProjectCall

Spec == Init /\ [][Next]_vars

\* the files of a user folder that is scanned: hourly files of two passive streams,
\* a file in a folder that is not a data stream, and a file whose name is not an hour
ScannedFiles ==
    { [stream |-> "accelerometer", object |-> "", bucket |-> 1, size |-> 100, os |-> ""],
      [stream |-> "gps", object |-> "", bucket |-> 1, size |-> 100, os |-> ""],
      [stream |-> "bogus_stream", object |-> "", bucket |-> 1, size |-> 100, os |-> ""],
      [stream |-> "gps", object |-> "", bucket |-> 0, size |-> 100, os |-> ""] }

\* the identifiers files of a user whose app was installed on an iPhone, on an
\* Android phone and on a phone of another kind
DeviceFiles ==
    { [stream |-> "identifiers", object |-> "", bucket |-> 1, size |-> 100, os |-> "iOS"],
      [stream |-> "identifiers", object |-> "", bucket |-> 2, size |-> 100, os |-> "Android"],
      [stream |-> "identifiers", object |-> "", bucket |-> 3, size |-> 100, os |-> "Windows"] }

\* one raw data directory to scan
InitScan ==
    /\ raw_data \in FileSystems({"raw_1"}, ScannedFiles \cup DeviceFiles, MaxScanned)
    /\ NewProject
    /\ IdleConfig

\* p = BeiweProject.create(raw_dir, user_ids)
CreateScanned ==
    /\ project = NoProject
    /\ \E user_ids \in Selections : Created(<<"raw_1">>, user_ids, NoConfiguration)

NextScan ==
    \/ CreateScanned
    \/ ExportProjectCall

SpecScan == InitScan /\ [][NextScan]_vars

SpecMerge == InitMerge /\ [][NextMerge]_vars

\* three raw data directories with the same hour of accelerometer data, in two sizes
ThreeRoots == <<"raw_1", "raw_2", "raw_3">>
SameHourFiles == {f \in PassiveFiles : f.stream = "accelerometer" /\ f.bucket = 1}

\* the orders in which a caller may list the directories
Orderings(dirs) ==
    {[k \in 1..Len(dirs) |-> dirs[f[k]]] : f \in Permutations(1..Len(dirs))}

InitThree ==
    /\ raw_data \in FileSystems(Range(ThreeRoots), SameHourFiles, MaxMerged)
    /\ NewProject
    /\ IdleConfig

\* r = BeiweProject.create(raw_dirs, user_ids = 'all'), raw_dirs in any order
CreateFromThree ==
    /\ project = NoProject
    /\ \E raw_dirs \in Orderings(ThreeRoots) : Created(raw_dirs, AllUsers, NoConfiguration)

NextThree ==
    \/ CreateFromThree
    \/ ExportProjectCall

SpecThree == InitThree /\ [][NextThree]_vars

\* a create call that scans one user at a time and lets the caller stop it between
\* two users
NoScan == [kind |-> "none"]

\* the outcome of a create call that was stopped: a project of the users scanned
\* so far
AbortedCreate_Partial(fs, sc) ==
    LET whole == CreateProject(fs, sc.raw_dirs, sc.user_ids, NoConfiguration)
        done == SelectSeq(whole.ids, LAMBDA u : u \in DOMAIN sc.data)
    IN  [whole EXCEPT !.ids = done, !.data = sc.data]

\* the outcome of a create call that was stopped: a failure, not a project
AbortedCreate(fs, sc) == [kind |-> "error", error |-> "aborted"]

InitAbort ==
    /\ raw_data \in FileSystems(Roots, PassiveFiles, MaxFiles)
    /\ NewProject
    /\ IdleConfig

\* BeiweProject.create(raw_dirs, user_ids) begins: the users to scan are listed
BeginCreate ==
    /\ project.kind # "project"
    /\ scan = NoScan
    /\ \E raw_dirs \in RootLists, user_ids \in Selections :
          /\ scan' = [kind |-> "scanning", raw_dirs |-> raw_dirs, user_ids |-> user_ids,
                      pending |-> ProjectIds(raw_data, raw_dirs,
                                             IF user_ids.all THEN Found(raw_data, raw_dirs)
                                             ELSE user_ids.ids),
                      data |-> [u \in {} |-> NoScan]]
          /\ call' = [op |-> "create_begun", raw_dirs |-> raw_dirs, user_ids |-> user_ids]
    /\ project' = NoProject
    /\ UNCHANGED <<raw_data, records, recordsFrom, loaded>>
    /\ UNCHANGED cvars

\* the registry of the next user is built
ScanNextUser ==
    /\ scan.kind = "scanning"
    /\ scan.pending # <<>>
    /\ LET u == Head(scan.pending)
       IN  scan' = [scan EXCEPT !.pending = Tail(scan.pending),
                                !.data = [v \in DOMAIN scan.data \cup {u} |->
                                             IF v = u THEN UserData(raw_data, scan.raw_dirs, u)
                                             ELSE scan.data[v]]]
    /\ UNCHANGED <<raw_data, project, records, recordsFrom, loaded, call>>
    /\ UNCHANGED cvars

\* the caller's check between two users stops the scan
AbortBetweenUsers ==
    /\ scan.kind = "scanning"
    /\ scan.pending # <<>>
    /\ DOMAIN scan.data # {}
    /\ project' = AbortedCreate(raw_data, scan)
    /\ call' = [op |-> "create_aborted", raw_dirs |-> scan.raw_dirs, user_ids |-> scan.user_ids,
                scanned |-> DOMAIN scan.data]
    /\ scan' = NoScan
    /\ UNCHANGED <<raw_data, records, recordsFrom, loaded>>
    /\ UNCHANGED cvars

\* every user is scanned: create returns the project
FinishCreate ==
    /\ scan.kind = "scanning"
    /\ scan.pending = <<>>
    /\ project' = CreateProject(raw_data, scan.raw_dirs, scan.user_ids, NoConfiguration)
    /\ call' = [op |-> "create", raw_dirs |-> scan.raw_dirs, user_ids |-> scan.user_ids,
                configuration |-> NoConfiguration]
    /\ scan' = NoScan
    /\ UNCHANGED <<raw_data, records, recordsFrom, loaded>>
    /\ UNCHANGED cvars

NextAbort ==
    \/ BeginCreate
    \/ ScanNextUser
    \/ AbortBetweenUsers
    \/ FinishCreate
    \/ ExportProjectCall

SpecAbort == InitAbort /\ [][NextAbort]_vars

\* a call that reads or writes a path on disk; the path may be missing or unreadable
IOFailure == [kind |-> "error", error |-> "IOFailure"]

\* what a call that touches the disk returns
OrFail(ok, value) == IF ok THEN value ELSE IOFailure

\* a name assigned from a call that fails loses the object it was bound to
Bound_Clears(old, outcome) == outcome

\* x = call(...): the name is bound to what the call returns; a call that fails
\* binds nothing
Bound(old, outcome) == IF outcome.kind = "error" THEN old ELSE outcome

\* p = BeiweProject.create(raw_dir, user_ids), the directory readable or not
CreateIO ==
    \E user_ids \in Selections, readable \in BOOLEAN :
        LET outcome == OrFail(readable, CreateProject(raw_data, <<"raw_1">>, user_ids, NoConfiguration))
        IN  /\ project' = Bound(project, outcome)
            /\ call' = [op |-> "create", error |-> outcome.kind = "error"]
            /\ UNCHANGED <<raw_data, records, recordsFrom, loaded, scan>>
            /\ UNCHANGED cvars

\* p.export(name, directory, track_time = False), the directory writable or not
ExportIO ==
    /\ project.kind = "project"
    /\ \E writable \in BOOLEAN :
          LET outcome == OrFail(writable, ExportProject(project))
          IN  /\ records' = Bound(records, outcome)
              /\ recordsFrom' = IF outcome.kind = "error" THEN recordsFrom ELSE project
              /\ call' = [op |-> "export", error |-> outcome.kind = "error"]
    /\ UNCHANGED <<raw_data, project, loaded, scan>>
    /\ UNCHANGED cvars

\* q = BeiweProject.load(path); nothing is at the path before the first export
LoadIO ==
    /\ \E readable \in BOOLEAN :
          LET outcome == OrFail(readable /\ records.kind = "record", LoadProject(records))
          IN  /\ loaded' = Bound(loaded, outcome)
              /\ call' = [op |-> "load", error |-> outcome.kind = "error"]
    /\ UNCHANGED <<raw_data, project, records, recordsFrom, scan>>
    /\ UNCHANGED cvars

NextIO ==
    \/ CreateIO
    \/ ExportIO
    \/ LoadIO

SpecIO == Init /\ [][NextIO]_vars

(***************************************************************************)
(* Properties of configread.                                               *)
(***************************************************************************)
SurveyIds(c) == [n \in 1..Len(c.surveys) |-> c.surveys[n].identifier]
QuestionIds(c) ==
    [n \in 1..Len(c.surveys) |->
        [k \in 1..Len(c.surveys[n].questions) |-> c.surveys[n].questions[k].identifier]]

\* C1: a BeiweConfig read from the export of a study compares equal to that study
\* and has the same name assignments, also after update_names changed the names
C1_StudyRoundTrip ==
    last.op = "load" =>
        /\ ConfigEq(reloaded, last.origin)
        /\ reloaded.name_assignments = last.origin.name_assignments

C1_Witness ==
    /\ last.op = "load"
    /\ Len(last.origin.surveys) > 0
    /\ \E k \in 1..Len(last.origin.name_assignments) :
          last.origin.name_assignments[k][2] \in NewNames

\* the name the k-th identifier would have after the mapping is applied
WouldBe(names, m, k) == IF names[k][2] \in DOMAIN m THEN m[names[k][2]] ELSE names[k][2]
Shared(names, m, name) ==
    \E j, k \in 1..Len(names) : j # k /\ WouldBe(names, m, j) = name /\ WouldBe(names, m, k) = name

\* C5: an update_names whose mapping would give two identifiers the same name fails
\* with that name, and leaves every name assignment as it was before the call
C5_CollisionLeavesNames ==
    (last.op = "update_names" /\ \E k \in 1..Len(last.before) :
                                    Shared(last.before, last.mapping, WouldBe(last.before, last.mapping, k))) =>
        /\ last.error = "NameCollision"
        /\ Shared(last.before, last.mapping, last.name)
        /\ config.name_assignments = last.before

\* a failed call with two entries, one of which could have been applied alone
C5_Witness ==
    /\ last.op = "update_names"
    /\ last.error = "NameCollision"
    /\ Cardinality(DOMAIN last.mapping) = 2
    /\ \E old \in DOMAIN last.mapping :
          ~\E k \in 1..Len(last.before) : last.before[k][2] = last.mapping[old]
    /\ config.name_assignments = last.before

\* C6: the surveys and questions of one study have the same identifiers whichever
\* of the three formats the file is in
C6_IdentifierStability ==
    (config.kind = "config" /\ variant.kind = "config") =>
        /\ SurveyIds(config) = SurveyIds(variant)
        /\ QuestionIds(config) = QuestionIds(variant)

C6_Witness ==
    /\ config.kind = "config" /\ variant.kind = "config"
    /\ config.format = "Legacy" /\ variant.format = "CurrentV2"
    /\ \E n \in 1..Len(config.surveys) : Len(config.surveys[n].questions) > 0

\* the warnings of a study about one object
WarningsAbout(c, identifier) ==
    {k \in 1..Len(c.warnings) : c.warnings[k].object = identifier}

IsDeletedDummy(raw, n) ==
    /\ raw.surveys[n]["survey_type"] = "dummy"
    /\ "deleted" \in DOMAIN raw.surveys[n]
    /\ raw.surveys[n]["deleted"] = "True"

\* C10: a file with a survey of type dummy whose deleted attribute is set is read
\* without error; the survey is a generic survey with deleted = True, and exactly
\* one warning, "unknown survey type: dummy", is about it
C10_DummySurvey ==
    (config # NoConfig /\ source.format \in Formats) =>
        \A n \in 1..Len(source.raw.surveys) :
            IsDeletedDummy(source.raw, n) =>
                /\ config.kind = "config"
                /\ config.surveys[n].class = "BeiweSurvey"
                /\ config.surveys[n].deleted = "True"
                /\ Cardinality(WarningsAbout(config, config.surveys[n].identifier)) = 1
                /\ \A k \in WarningsAbout(config, config.surveys[n].identifier) :
                      config.warnings[k].kind = "unknown survey type" /\ config.warnings[k].key = "dummy"

C10_Witness ==
    /\ config.kind = "config"
    /\ Len(source.raw.surveys) = 1
    /\ IsDeletedDummy(source.raw, 1)
    /\ Len(config.warnings) = 1

\* the same scenario with two dummy surveys in one file
C10_WitnessTwo ==
    /\ config.kind = "config"
    /\ Len(source.raw.surveys) = 2
    /\ IsDeletedDummy(source.raw, 1) /\ IsDeletedDummy(source.raw, 2)


(***************************************************************************)
(* Properties of manage.                                                   *)
(***************************************************************************)
\* C2: a project that was created, had configurations attached any number of
\* times and was exported, is equal to the project loaded from the exported
\* folder: the registry of every user (files, devices), the flags and every
\* attached configuration are those of the project at the time of the export
C2_ProjectRoundTrip ==
    call.op = "load" =>
        /\ ProjectEq(loaded, call.origin)
        /\ \A u \in Range(call.origin.ids) :
              /\ loaded.data[u].files = call.origin.data[u].files
              /\ DeviceOS(loaded.data[u]) = DeviceOS(call.origin.data[u])
        /\ \A flag \in FlagNames : loaded.flags[flag] = call.origin.flags[flag]

\* a project with survey data and a device record, with renamed configurations
\* attached to its users, was exported and loaded
C2_Witness ==
    /\ call.op = "load"
    /\ \E u \in Range(call.origin.ids) :
          /\ DeviceOS(call.origin.data[u]) # {}
          /\ \E f \in call.origin.data[u].files : f.stream = "survey_timings"
    /\ "a_named" \in DOMAIN call.origin.configurations
    /\ DOMAIN call.origin.object_names # {}

\* C3: update_configurations(m) called a second time with the same m, one path
\* or a path for each user, leaves the project as the first call left it
C3_UpdateIdempotent ==
    call.op = "update_configurations" =>
        UpdateConfigurations(project, call.configuration) = project

\* a path for each user was attached to a project with users, in place of another
\* configuration
C3_Witness ==
    /\ call.op = "update_configurations"
    /\ call.configuration.kind = "users"
    /\ Cardinality(PathsOf(call.configuration)) = 2
    /\ Len(project.ids) = 2
    /\ DOMAIN project.object_names # {}

Reverse(seq) == [k \in 1..Len(seq) |-> seq[Len(seq) + 1 - k]]

\* C4: a project created from the raw data directories [A, B] is equal to the
\* project created from [B, A]
C4_MergeCommutes ==
    (call.op = "create" /\ Len(call.raw_dirs) = 2) =>
        ProjectEq(project,
                  CreateProject(raw_data, Reverse(call.raw_dirs), call.user_ids, call.configuration))

\* two directories hold the same hour of one user's data with different sizes
C4_Witness ==
    /\ call.op = "create"
    /\ call.raw_dirs = <<"raw_1", "raw_2">>
    /\ \E u \in Range(project.ids) :
          /\ u \in UsersIn(raw_data, "raw_1") \cap UsersIn(raw_data, "raw_2")
          /\ project.data[u].conflicts # {}

\* the files of one user for the same stream and hour
SameHour(e, g) ==
    /\ e.user = g.user
    /\ e.file # NoFile /\ g.file # NoFile
    /\ e.file.stream = g.file.stream
    /\ e.file.object = g.file.object
    /\ e.file.bucket = g.file.bucket

HourOf(e) == [stream |-> e.file.stream, object |-> e.file.object, bucket |-> e.file.bucket]

\* C7: when two raw data directories of a project hold a file of the same user,
\* stream and hour with different sizes, the registry of the user has exactly one
\* conflict for that stream and hour, and keeps both sizes, in either order of
\* the directories
C7_ConflictKeepsBoth ==
    call.op = "create" =>
        \A e, g \in raw_data :
            ( /\ SameHour(e, g)
              /\ e.file.size # g.file.size
              /\ e.root # g.root
              /\ {e.root, g.root} \subseteq Range(call.raw_dirs)
              /\ e.user \in Range(project.ids) ) =>
                /\ Cardinality({c \in project.data[e.user].conflicts : c = HourOf(e)}) = 1
                /\ {e.file, g.file} \subseteq project.data[e.user].files
                /\ {f.size : f \in {f \in project.data[e.user].files : HourOf([file |-> f]) = HourOf(e)}}
                      = {e.file.size, g.file.size}

\* the directory with the larger file is read last, or first
C7_Witness ==
    /\ call.op = "create"
    /\ call.raw_dirs = <<"raw_2", "raw_1">>
    /\ \E e, g \in raw_data :
          /\ SameHour(e, g)
          /\ e.root = "raw_1" /\ g.root = "raw_2"
          /\ e.file.size > g.file.size
          /\ e.user \in Range(project.ids)

\* the users a create call selects
SelectedUsers(user_ids, found) == IF user_ids.all THEN found ELSE user_ids.ids

\* C8: after create, each selected user with a folder in one of the raw data
\* directories is in the project exactly once and has a registry, also when the
\* folder is in several directories; the project has no other user
C8_UsersOnce ==
    call.op = "create" =>
        LET present == Found(raw_data, call.raw_dirs) \cap
                         SelectedUsers(call.user_ids, Found(raw_data, call.raw_dirs))
        IN  /\ \A u \in present :
                  /\ Cardinality({k \in 1..Len(project.ids) : project.ids[k] = u}) = 1
                  /\ u \in DOMAIN project.data
            /\ Range(project.ids) = present
            /\ DOMAIN project.data = present

\* a user with a folder in both directories, and both directories given to create
C8_Witness ==
    /\ call.op = "create"
    /\ Range(call.raw_dirs) = Roots
    /\ call.user_ids.all
    /\ \E u \in Range(project.ids) :
          u \in UsersIn(raw_data, "raw_1") \cap UsersIn(raw_data, "raw_2")

\* two of the attached configurations name a survey Survey 1
DefaultNamesCollide(p) ==
    \E path, other \in DOMAIN p.configurations :
        /\ path # other
        /\ p.configurations[path].default_names
        /\ p.configurations[other].default_names
        /\ \E i \in 1..Len(p.configurations[path].name_assignments),
              j \in 1..Len(p.configurations[other].name_assignments) :
              /\ p.configurations[path].name_assignments[i][2] = SurveyName(1)
              /\ p.configurations[other].name_assignments[j][2] = SurveyName(1)

AttachedSurveyIds(p) ==
    UNION {Range(SurveyIds(p.configurations[path])) : path \in DOMAIN p.configurations}

\* C9: a project with two configurations that both name a survey Survey 1 has the
\* unnamed_objects flag set and labels every survey by its identifier
C9_UnnamedObjectsFlag ==
    (project.kind = "project" /\ DefaultNamesCollide(project)) =>
        /\ project.flags["unnamed_objects"] # {}
        /\ \A i \in AttachedSurveyIds(project) : Label(project, i) = i

\* surveys are labeled by identifier when names collide
C9_LabeledByIdentifier ==
    (project.kind = "project" /\ DefaultNamesCollide(project)) =>
        \A i \in AttachedSurveyIds(project) : Label(project, i) = i

\* two configurations with default names are attached to a project with survey data
C9_Witness ==
    /\ project.kind = "project"
    /\ DefaultNamesCollide(project)
    /\ Len(project.ids) = 2
    /\ \E u \in Range(project.ids) :
          \E f \in project.data[u].files : f.object \in AttachedSurveyIds(project)

(***************************************************************************)
(* Properties of the scan of a user folder.                                *)
(***************************************************************************)
\* the folders of a user in a raw data directory
Subdirectories(fs, root, user) == {f.stream : f \in FilesIn(fs, root, user)}

\* the streams a registry has an entry for
StreamEntries(reg) == {f.stream : f \in reg.files \cup reg.unregistered_files}

\* C11: the scan of a user folder puts every folder in exactly one of the stream
\* entries and the irregular directories; a user folder with accelerometer, gps and
\* bogus_stream gives two stream entries with files, irregular_directories =
\* {"bogus_stream"} and no unregistered file, and the scan ends normally
C11_ScanClassifies ==
    call.op = "create" =>
        /\ project.kind = "project"
        /\ \A u \in Range(project.ids) :
              LET reg == project.data[u]
                  dirs == Subdirectories(raw_data, "raw_1", u)
              IN  /\ \A d \in dirs :
                        (d \in StreamEntries(reg)) # (d \in reg.irregular_directories)
                  /\ StreamEntries(reg) \cup reg.irregular_directories = dirs
                  /\ ( /\ dirs = {"accelerometer", "gps", "bogus_stream"}
                       /\ \A f \in FilesIn(raw_data, "raw_1", u) : f.bucket > 0 ) =>
                        /\ {f.stream : f \in reg.files} = {"accelerometer", "gps"}
                        /\ reg.irregular_directories = {"bogus_stream"}
                        /\ reg.unregistered_files = {}

\* a user folder with accelerometer, gps and bogus_stream was scanned
C11_Witness ==
    /\ call.op = "create"
    /\ \E u \in Range(project.ids) :
          /\ Subdirectories(raw_data, "raw_1", u) = {"accelerometer", "gps", "bogus_stream"}
          /\ \A f \in FilesIn(raw_data, "raw_1", u) : f.bucket > 0

(***************************************************************************)
(* Properties of the names of one configuration.                           *)
(***************************************************************************)
\* C12: after any sequence of default naming, update_names calls that succeed or
\* fail, and loads of a names.json, no two identifiers of a configuration have
\* the same name
C12_NamesUnique ==
    config.kind = "config" => Collision(config.name_assignments) = NotFound

\* update_names never gives two identifiers one name
C12_UpdateKeepsUnique ==
    [][(config.kind = "config" /\ Collision(config.name_assignments) = NotFound
        /\ last'.op = "update_names") => Collision(config'.name_assignments) = NotFound]_vars

\* a names.json that names the first survey Survey 2 was paired with a file of two
\* surveys
C12_Witness ==
    /\ config.kind = "config"
    /\ last.op = "load_names"
    /\ Len(config.surveys) = 2
    /\ HasKey(last.persisted, SurveyOid("a", 1))
    /\ Lookup(last.persisted, SurveyOid("a", 1)) = SurveyName(2)
    /\ ~HasKey(last.persisted, SurveyOid("a", 2))

\* the identifiers of a names.json that the configuration does not hold
UnknownIds(c, persisted) == Range(Keys(persisted)) \ Range(Keys(c.name_assignments))

\* C18: a names.json with identifiers that the study does not hold is read without
\* error; those entries are ignored, and the identifiers of the study that the
\* names.json names have the names it gives
C18_LoadIgnoresUnknown ==
    last.op = "load_names" =>
        /\ config.kind = "config"
        /\ LET defaults == DefaultNames(config.identifier, config.name, config.surveys)
           IN  /\ Keys(config.name_assignments) = Keys(defaults)
               /\ \A k \in 1..Len(defaults) :
                     config.name_assignments[k][2] =
                        IF HasKey(last.persisted, defaults[k][1])
                        THEN Lookup(last.persisted, defaults[k][1])
                        ELSE defaults[k][2]

\* a names.json that names a survey of the study Mood, and a survey that the
\* study does not hold
C18_Witness ==
    /\ last.op = "load_names"
    /\ config.kind = "config"
    /\ UnknownIds(config, last.persisted) # {}
    /\ Len(config.surveys) > 0
    /\ HasKey(last.persisted, config.surveys[1].identifier)
    /\ Lookup(config.name_assignments, config.surveys[1].identifier) = "Mood"

(***************************************************************************)
(* Properties of the attachment of configurations.                         *)
(***************************************************************************)
\* what a project holds besides names: the users, and for each user the files by
\* stream, survey identifier and hour, and the devices
Structure(p) ==
    [ ids |-> p.ids,
      files |-> [u \in DOMAIN p.data |-> p.data[u].files],
      keys |-> [u \in DOMAIN p.data |-> {<<f.stream, f.object>> : f \in p.data[u].files}],
      devices |-> [u \in DOMAIN p.data |-> DeviceOS(p.data[u])] ]

\* C13: attaching configurations, with update_configurations or within create,
\* changes names only: the users, the stream and survey identifiers, the files
\* and the devices of the project are the same before and after
C13_AttachmentFrame ==
    /\ [](call.op = "create" =>
             Structure(project) =
                Structure(CreateProject(raw_data, call.raw_dirs, call.user_ids, NoConfiguration)))
    /\ [][call'.op = "update_configurations" => Structure(project') = Structure(project)]_vars

\* configurations with names were attached to a project that holds data of a
\* survey they name, by update_configurations
C13_Witness ==
    /\ call.op = "update_configurations"
    /\ \E u \in Range(project.ids) :
          \E f \in project.data[u].files :
              /\ f.object \in DOMAIN project.object_names
              /\ Label(project, f.object) # f.object

(***************************************************************************)
(* Properties of reading a configuration file.                             *)
(***************************************************************************)
\* the documented attributes of each group of settings
SettingGroups == [app |-> AppKeys, survey |-> SurveyWideKeys, passive |-> PassiveKeys]

Unclaimed(raw) == DOMAIN raw.device_settings \ (DocumentedKeys \cup IdentifierKeys)

\* C15: every attribute of the file that no documented attribute claims gives a
\* warning, and the study is still built; a file without such attributes and
\* without surveys of an unknown type gives no warning
C15_UnclaimedWarned ==
    (config # NoConfig /\ source.format \in Formats) =>
        /\ config.kind = "config"
        /\ \A key \in Unclaimed(source.raw) :
              \E k \in 1..Len(config.warnings) :
                  config.warnings[k].kind = "unknown setting" /\ config.warnings[k].key = key
        /\ ( /\ Unclaimed(source.raw) = {}
             /\ \A n \in 1..Len(source.raw.surveys) :
                   source.raw.surveys[n]["survey_type"] \in {"audio_survey", "tracking_survey"} )
              => config.warnings = <<>>

\* a file with an undocumented setting was read, and a file with none
C15_Witness ==
    /\ config.kind = "config"
    /\ Unclaimed(source.raw) # {}
    /\ Len(config.warnings) > 0

C15_WitnessNone ==
    /\ config.kind = "config"
    /\ Unclaimed(source.raw) = {}
    /\ Len(config.surveys) = 2
    /\ config.warnings = <<>>

\* the markers of the three formats
BareId(obj) == "_id" \in DOMAIN obj /\ "object_id" \notin DOMAIN obj
HexIdAndDeleted(obj) == "object_id" \in DOMAIN obj /\ "deleted" \in DOMAIN obj

\* C16: every file has one format: Legacy when objects have an _id and no
\* object_id; CurrentV1 when survey objects have an object_id and a deleted
\* attribute; CurrentV2 when the three settings added in 2019 are in the device
\* settings, also when the object_id and deleted attributes are there
C16_FormatDetected ==
    (config.kind = "config") =>
        LET ds == source.raw.device_settings
            surveys == source.raw.surveys
        IN  /\ config.format \in Formats
            /\ V2Keys \subseteq DOMAIN ds => config.format = "CurrentV2"
            /\ (BareId(ds) /\ ~(V2Keys \subseteq DOMAIN ds)) => config.format = "Legacy"
            /\ ( /\ HexIdAndDeleted(ds)
                 /\ \A n \in 1..Len(surveys) : HexIdAndDeleted(surveys[n])
                 /\ ~(V2Keys \subseteq DOMAIN ds) ) => config.format = "CurrentV1"
            /\ config.format = source.format

\* a file with the settings added in 2019 and with object_id and deleted
\* attributes on its surveys was read
C16_Witness ==
    /\ config.kind = "config"
    /\ V2Keys \subseteq DOMAIN source.raw.device_settings
    /\ Len(source.raw.surveys) > 0
    /\ HexIdAndDeleted(source.raw.surveys[1])
    /\ config.format = "CurrentV2"

C19_MergeAnyOrder ==
    call.op = "create" =>
        \A raw_dirs \in Orderings(call.raw_dirs) :
            LET other == CreateProject(raw_data, raw_dirs, call.user_ids, call.configuration)
            IN  /\ ProjectEq(project, other)
                /\ \A u \in Range(project.ids) :
                      /\ project.data[u].files = other.data[u].files
                      /\ project.data[u].conflicts = other.data[u].conflicts

\* one user has the same hour in all three directories, in two sizes
C19_Witness ==
    /\ call.op = "create"
    /\ \E u \in Range(project.ids) :
          /\ \A k \in 1..3 : FilesIn(raw_data, ThreeRoots[k], u) # {}
          /\ project.data[u].conflicts # {}

(***************************************************************************)
(* Properties of a create call that is stopped.                            *)
(***************************************************************************)
\* a project holds every user of its raw data directories that was selected
Complete(p) ==
    /\ Range(p.ids) = Found(raw_data, p.raw_dirs) \ p.flags["ignored_users"]
    /\ DOMAIN p.data = Range(p.ids)

Observed(fs, raw_dirs, user, stream) ==
    {e.file : e \in {g \in fs : /\ g.root \in Range(raw_dirs) /\ g.user = user
                                /\ g.file # NoFile /\ g.file.stream = stream
                                /\ g.file.bucket > 0}}

\* C22: when two raw data directories of a project hold a file of the same user,
\* stream and hour with the same size, the merged registry keeps the observation
\* once, counts it once in the number of files and in the bytes of the stream, and
\* reports no conflict for that hour
C22_SameSizeOnce ==
    call.op = "create" =>
        \A e, g \in raw_data :
            ( /\ SameHour(e, g)
              /\ e.file.size = g.file.size
              /\ e.root # g.root
              /\ {e.root, g.root} \subseteq Range(call.raw_dirs)
              /\ e.file.stream \in KnownStreams
              /\ e.user \in Range(project.ids) ) =>
                LET reg == project.data[e.user]
                    seen == Observed(raw_data, call.raw_dirs, e.user, e.file.stream)
                IN  /\ Cardinality({f \in reg.files : HourOf([file |-> f]) = HourOf(e)}) = 1
                    /\ HourOf(e) \notin reg.conflicts
                    /\ Overview(reg, e.file.stream).files = Cardinality(seen)
                    /\ Overview(reg, e.file.stream).bytes = TotalSize(seen)

\* both directories hold the same hour of accelerometer data with the same size
C22_Witness ==
    /\ call.op = "create"
    /\ call.raw_dirs = <<"raw_1", "raw_2">>
    /\ \E e, g \in raw_data :
          /\ SameHour(e, g)
          /\ e.root = "raw_1" /\ g.root = "raw_2"
          /\ e.file.size = g.file.size
          /\ e.file.stream = "accelerometer"
          /\ e.user \in Range(project.ids)
          /\ Overview(project.data[e.user], "accelerometer") =
                [files |-> 1, bytes |-> e.file.size, first |-> e.file.bucket, last |-> e.file.bucket]

\* C29: a project created from a raw data directory listed twice is the project
\* created from that directory listed once: the same users, registries, flags and
\* names; no registry reports a conflict, and each stream has the number of files
\* and of bytes of the single directory
C29_SameRootTwice ==
    (call.op = "create" /\ Len(call.raw_dirs) = 2 /\ call.raw_dirs[1] = call.raw_dirs[2]) =>
        LET once == CreateProject(raw_data, <<call.raw_dirs[1]>>, call.user_ids, call.configuration)
        IN  /\ ProjectEq(project, once)
            /\ \A u \in DOMAIN project.data :
                  /\ project.data[u].conflicts = {}
                  /\ \A stream \in KnownStreams :
                        /\ Overview(project.data[u], stream) =
                              Overview(ScanUser(raw_data, call.raw_dirs[1], u), stream)
                        /\ Overview(project.data[u], stream).files =
                              Cardinality(Observed(raw_data, <<call.raw_dirs[1]>>, u, stream))

\* a directory with two files of a user is listed twice
C29_Witness ==
    /\ call.op = "create"
    /\ call.raw_dirs = <<"raw_1", "raw_1">>
    /\ \E u \in Range(project.ids) :
          /\ Cardinality(FilesIn(raw_data, "raw_1", u)) = 2
          /\ Cardinality(project.data[u].files) = 2

\* C23: in the folder of a known data stream, a file whose name is not an hour
\* (hour 0 in the model) is an unregistered file and adds nothing to the number of
\* files, the bytes, the first hour or the last hour of the stream; a file whose
\* name is an hour is counted in exactly these
C23_UnregisteredNotCounted ==
    call.op = "create" =>
        \A u \in DOMAIN project.data, stream \in KnownStreams :
            LET reg == project.data[u]
                inFolder == {f \in FilesIn(raw_data, "raw_1", u) : f.stream = stream}
                hourly == {f \in inFolder : f.bucket > 0}
                hours == {f.bucket : f \in hourly}
                stats == Overview(reg, stream)
            IN  /\ \A f \in inFolder \ hourly : f \in reg.unregistered_files /\ f \notin reg.files
                /\ \A f \in hourly : f \in reg.files /\ f \notin reg.unregistered_files
                /\ stats.files = Cardinality(hourly)
                /\ stats.bytes = TotalSize(hourly)
                /\ hourly = {} => stats.first = 0 /\ stats.last = 0
                /\ hourly # {} => /\ stats.first \in hours /\ \A h \in hours : stats.first <= h
                                  /\ stats.last \in hours /\ \A h \in hours : stats.last >= h

\* a gps folder with an hourly file and a file whose name is not an hour
C23_Witness ==
    /\ call.op = "create"
    /\ \E u \in DOMAIN project.data :
          /\ Cardinality({f \in FilesIn(raw_data, "raw_1", u) : f.stream = "gps"}) = 2
          /\ Cardinality(project.data[u].unregistered_files) = 1
          /\ Overview(project.data[u], "gps") = [files |-> 1, bytes |-> 100, first |-> 1, last |-> 1]

\* the phone operating systems in the identifiers files of a user folder
PhonesOf(fs, root, user) ==
    {f.os : f \in {f \in FilesIn(fs, root, user) : f.stream = "identifiers" /\ f.bucket > 0}}

\* C25: a user whose identifiers files show more than one operating system is
\* scanned like any other: the create call returns a project with a registry of
\* the user, the registry records each operating system seen and has no flag of
\* its own for it, and the project lists the user under multiple_devices, and
\* under unknown_os exactly when one of the systems is not a known one
C25_DevicesFlaggedOnProject ==
    call.op = "create" =>
        /\ project.kind = "project"
        /\ \A u \in Range(project.ids) :
              LET phones == PhonesOf(raw_data, "raw_1", u)
              IN  Cardinality(phones) > 1 =>
                    /\ u \in DOMAIN project.data
                    /\ DeviceOS(project.data[u]) = phones
                    /\ DOMAIN project.data[u] \cap {"multiple_devices", "unknown_os"} = {}
                    /\ u \in project.flags.multiple_devices
                    /\ (u \in project.flags.unknown_os) <=> (phones \ KnownOS # {})

\* one user has identifiers files of an iPhone and of an Android phone, another has
\* one of a phone of an unknown kind
C25_Witness ==
    /\ call.op = "create"
    /\ \E u \in Range(project.ids) :
          /\ PhonesOf(raw_data, "raw_1", u) = {"iOS", "Android"}
          /\ project.flags.multiple_devices = {u}
          /\ project.flags.unknown_os = {}

\* a user with a known and an unknown phone is under both flags
C25_WitnessUnknown ==
    /\ call.op = "create"
    /\ \E u \in Range(project.ids) :
          /\ PhonesOf(raw_data, "raw_1", u) = {"iOS", "Windows"}
          /\ u \in project.flags.multiple_devices \cap project.flags.unknown_os

AllDistinct(p) ==
    LET pool == ObjectNames(p.configurations)
    IN  /\ Cardinality(Range(Values(pool))) = Len(pool)
        /\ Cardinality(Range(Keys(pool))) = Len(pool)

\* C27: a project that labeled by identifier because the pooled names collided
\* is not held to it: after a later update_configurations call whose studies have
\* names that are all different, the project is a project as before and every
\* survey of an attached study is labeled by the name the study gives it
C27_FallbackNotPermanent ==
    ( /\ call.op = "update_configurations"
      /\ call.fallback
      /\ DOMAIN project.configurations # {}
      /\ AllDistinct(project) ) =>
        /\ project.kind = "project"
        /\ \A path \in DOMAIN project.configurations :
              \A i \in Range(SurveyIds(project.configurations[path])) :
                  /\ Label(project, i) = Lookup(project.configurations[path].name_assignments, i)
                  /\ Label(project, i) # i

\* after two studies that both have a Survey 1, the exports with short names are
\* attached, one to each user
C27_Witness ==
    /\ call.op = "update_configurations"
    /\ call.fallback
    /\ call.configuration.kind = "users"
    /\ DOMAIN project.configurations = {"a_named", "b_named"}
    /\ Len(project.ids) = 2
    /\ AllDistinct(project)
    /\ \E u \in Range(project.ids) :
          \E f \in project.data[u].files :
              f.object \in AttachedSurveyIds(project) /\ Label(project, f.object) # f.object

C30_StudyFrame ==
    [][ last'.op = "export" =>
            /\ config' = config
            /\ ConfigEq(LoadRecords(exported'), config)
            /\ LoadRecords(exported').name_assignments = config.name_assignments ]_vars

\* C26: two studies read from documents of the same configuration compare equal,
\* in either order, when one document is in a newer format than the other, and
\* when one is the exported copy of the other; the format detected and the
\* deserialized documents differ and do not enter the comparison
C26_SemanticEquality ==
    (config.kind = "config" /\ variant.kind = "config") =>
        /\ config.format # variant.format
        /\ config.raw # variant.raw
        /\ ConfigEq(config, variant)
        /\ ConfigEq(variant, config)
        /\ ConfigEq(variant, LoadRecords(ExportRecords(config)))
        /\ ConfigEq(LoadRecords(ExportRecords(variant)), config)

\* a file of the oldest format with a tracking survey and a dummy survey, and the
\* same study in the newest format
C26_Witness ==
    /\ config.kind = "config" /\ variant.kind = "config"
    /\ config.format = "Legacy" /\ variant.format = "CurrentV2"
    /\ Len(config.surveys) = 2
    /\ config.surveys[1].type = "tracking_survey"
    /\ config.surveys[2].type = "dummy"
    /\ config.surveys[2].deleted # variant.surveys[2].deleted

\* studies of different configurations are not equal
C26_DifferentStudiesDiffer ==
    (config.kind = "config" /\ variant.kind = "config") =>
        \A other \in Sources :
            (other.raw # MalformedRaw /\ other.logical # source.logical) =>
                ~ConfigEq(config, BeiweConfig(other.raw, FileName, <<>>))

\* the two directions of the names of a study undo each other: the identifier
\* looked up for the name of an identifier is that identifier, and every name that
\* can be looked up is the name of exactly one identifier
MutualInverse(c) ==
    /\ \A k \in 1..Len(c.name_assignments) :
          /\ c.name_assignments[k][2] \in DOMAIN c.identifier_lookup
          /\ c.identifier_lookup[c.name_assignments[k][2]] = c.name_assignments[k][1]
    /\ \A name \in DOMAIN c.identifier_lookup :
          Cardinality({k \in 1..Len(c.name_assignments) : c.name_assignments[k][2] = name}) = 1

\* C28: in every state of the names of a study, after default naming, updates and
\* loads, the lookup by identifier and the lookup by name are inverses of each
\* other, and no name of before an update can still be looked up
C28_MutualInverse ==
    config.kind = "config" => MutualInverse(config)

\* default naming and update_names keep the two lookups inverse, and after an
\* update that succeeds a name that was replaced is looked up no more
C28_UpdateKeepsInverse ==
    [][ (config.kind = "config" /\ MutualInverse(config) /\ last'.op = "update_names") =>
            /\ MutualInverse(config')
            /\ last'.error = "none" =>
                  \A old \in DOMAIN last'.mapping :
                      (old \notin Range(Values(config'.name_assignments))) =>
                          old \notin DOMAIN config'.identifier_lookup ]_vars

\* a names.json gives the first survey the default name of the second: the name
\* Survey 2 is looked up to one identifier and is the name of two
C28_Witness ==
    /\ config.kind = "config"
    /\ last.op = "load_names"
    /\ Len(config.surveys) = 2
    /\ Lookup(config.name_assignments, SurveyOid("a", 1)) = SurveyName(2)
    /\ Lookup(config.name_assignments, SurveyOid("a", 2)) = SurveyName(2)
    /\ config.identifier_lookup[SurveyName(2)] = SurveyOid("a", 2)

=============================================================================
